---- MODULE Spec2Model ----
(***************************************************************************)
(* Model of steampy's asynchronous login protocol (steampy/login.py,       *)
(* LoginExecutor) as driven by SteamClient.login (steampy/client.py).      *)
(*                                                                         *)
(* A login call is a coroutine: it runs atomically between two awaits of   *)
(* a network response, so every action below is "a response arrives and    *)
(* the coroutine runs up to its next request (or its end)".  The provider  *)
(* is the environment: the content of every response is chosen freely      *)
(* from small sets.  Tasks created with asyncio.ensure_future are separate *)
(* coroutines that the event loop may run at any later time, or never.     *)
(*                                                                         *)
(* Spec is the login protocol alone.  ClientSpec adds the login-required   *)
(* operations of SteamClient and of its SteamMarket (steampy/market.py)    *)
(* to a login whose provider answers plainly.  EngineSpec is the           *)
(* ConfirmationExecutor (steampy/confirmation.py) called on its own.       *)
(***************************************************************************)
EXTENDS Naturals, Sequences, FiniteSets, TLC

VARIABLES
    was_login_executed,  \* SteamClient.was_login_executed
    username,            \* SteamClient.username
    steam_guard,         \* SteamClient.steam_guard
    cookie_jar,          \* session.cookie_jar._cookies, the sessionid cookie of each domain, in insertion order
    calls,               \* one record per call of SteamClient.login: its LoginExecutor, position and trace
    tasks,               \* per login call, the task made by asyncio.ensure_future in _fetch_rsa_params
    market,              \* SteamClient.market, the SteamMarket of the client
    op,                  \* the call of a login-required operation the caller has made last, and its trace
    conf                 \* the ConfirmationExecutor at work (or the last one), and its trace

vars == <<was_login_executed, username, steam_guard, cookie_jar, calls, tasks, market, op, conf>>

\* what a login call never touches
operation_vars == <<market, op, conf>>

-----------------------------------------------------------------------------
(* Bounds of the model *)

\* longest transfer_urls list a login response carries
MaxUrls == 2

\* the coroutines that run SteamClient.login on the one client; each runs
\* one login call at a time and any number of them one after the other
Calls == {"first", "second"}
\* under Spec the caller awaits each login before it starts the next
Sequential == {"first"}

None == "None"

-----------------------------------------------------------------------------
(* Values *)

\* the arguments of a login call: the caller's accounts
Accounts ==
    { [username |-> "alice", password |-> "hunter2",
       steam_guard |-> [shared_secret |-> "shared1", identity_secret |-> "identity1",
                       steamid |-> "steamid1"]],
      [username |-> "bob", password |-> "swordfish",
       steam_guard |-> [shared_secret |-> "shared2", identity_secret |-> "identity2",
                       steamid |-> "steamid2"]] }
NoGuard == [shared_secret |-> None, identity_secret |-> None, steamid |-> None]
SessionIds == {"sidA", "sidB"}

\* a URL string, as the parts the code and yarl take it apart into
STORE_URL == <<"https://", "store.steampowered.com">>
COMMUNITY_URL == <<"https://", "steamcommunity.com">>
HELP_HOST == "help.steampowered.com"
TransferUrls == { <<"https://", "steamcommunity.com", "/login/transfer">>,
                  <<"https://", "help.steampowered.com", "/login/transfer">> }

\* s[8:] of a URL string that starts with the 8 characters "https://"
DropScheme(s) == Tail(s)

\* yarl.URL(s).raw_host: a string with no "scheme://" parses as a relative
\* path and has no host
raw_host(s) == IF Len(s) >= 2 /\ s[1] = "https://" THEN s[2] ELSE None

Absent == "absent"

\* the JSON answers of /login/getrsakey/ (publickey_exp goes with
\* publickey_mod): the expected fields, or an error shape that lacks them
RsaKeyResponses ==
    { [publickey_mod |-> "key1", timestamp |-> "ts1"],
      [publickey_mod |-> "key2", timestamp |-> "ts2"],
      [publickey_mod |-> "key1", timestamp |-> Absent],
      [publickey_mod |-> Absent, timestamp |-> Absent] }

RECURSIVE SeqsUpTo(_, _)
SeqsUpTo(S, n) ==
    IF n = 0 THEN {<<>>}
    ELSE LET shorter == SeqsUpTo(S, n - 1)
         IN  shorter \cup { Append(s, x) : s \in { t \in shorter : Len(t) = n - 1 }, x \in S }

\* an optional value: <<>> when there is none, <<v>> when there is
Some(v) == <<v>>
Nothing == <<>>

\* the JSON answers of /login/dologin/ (the fields login reads; JSON true
\* and false are "true" and "false"); an unsuccessful answer carries no
\* transfer data
LoginResponses ==
    { r \in [ captcha_needed : BOOLEAN,
              requires_twofactor : BOOLEAN,
              success : {"true", "false", Absent},
              transfer_parameters : {None, "params"},
              transfer_urls : {Nothing} \cup { Some(l) : l \in SeqsUpTo(TransferUrls, MaxUrls) } ] :
        r.success # "true" => (r.transfer_parameters = None /\ r.transfer_urls = Nothing) }

\* a Set-Cookie: sessionid=... header of a response, or none; the answers
\* of /login/dologin/ and of the transfer URLs are the ones that may carry it
SetCookies == {None} \cup SessionIds

\* an exception: its class, its message and, for InvalidCredentials, the
\* response data it carries
NoError == [kind |-> None, message |-> "", data |-> Nothing]
Raise(kind, message) == [kind |-> kind, message |-> message, data |-> Nothing]
RaiseWith(kind, data) == [kind |-> kind, message |-> "str(data)", data |-> Some(data)]

-----------------------------------------------------------------------------
(* The cookie jar: aiohttp's CookieJar._cookies is a dict keyed by cookie  *)
(* domain; only the cookie named sessionid is modelled.  The jar is the    *)
(* sequence of <<domain, value>> in the dict's insertion order.            *)

Domains(jar) == { jar[i][1] : i \in 1..Len(jar) }

HasCookie(jar, domain) == domain \in Domains(jar)

CookieValue(jar, domain) ==
    LET i == CHOOSE j \in 1..Len(jar) : jar[j][1] = domain IN jar[i][2]

\* self._cookies[domain]['sessionid'] = value
StoreCookie(jar, domain, value) ==
    IF HasCookie(jar, domain)
    THEN [ i \in 1..Len(jar) |-> IF jar[i][1] = domain THEN <<domain, value>> ELSE jar[i] ]
    ELSE Append(jar, <<domain, value>>)

\* CookieJar.update_cookies({'sessionid': value}, response_url): a cookie with
\* no Domain attribute gets the host of response_url as its domain; when
\* response_url has no host the cookie keeps the empty domain (aiohttp's
\* "shared" cookie)
SharedDomain == ""
update_cookies(jar, value, response_url) ==
    LET hostname == raw_host(response_url)
        domain == IF hostname # None THEN hostname ELSE SharedDomain
    IN  StoreCookie(jar, domain, value)

\* the session stores the cookies of every response it receives
ReceiveCookies(jar, set_cookie, url) ==
    IF set_cookie = None THEN jar ELSE update_cookies(jar, set_cookie, url)

-----------------------------------------------------------------------------
(* LoginExecutor (steampy/login.py) *)

\* _fetch_rsa_params: maximal_number_of_repetitions
maximal_number_of_repetitions == 5

\* _fetch_rsa_params: the try block raises KeyError when an expected field
\* is missing from the key response
RaisesKeyError(key_response) ==
    key_response.publickey_mod = Absent \/ key_response.timestamp = Absent

\* a slip in _fetch_rsa_params: the timestamp is not the key response's
RsaParams_stale(key_response) ==
    [rsa_key |-> key_response.publickey_mod, rsa_timestamp |-> "ts1"]

\* _fetch_rsa_params: the dict returned when the key response is complete
RsaParams(key_response) ==
    [rsa_key |-> key_response.publickey_mod, rsa_timestamp |-> key_response.timestamp]

\* a slip in the test of the except branch: <= for <
MayRepeat_inclusive(current_number_of_repetitions) ==
    current_number_of_repetitions <= maximal_number_of_repetitions

\* _fetch_rsa_params: the test of the except branch
MayRepeat(current_number_of_repetitions) ==
    current_number_of_repetitions < maximal_number_of_repetitions

\* _encrypt_password: base64 of the RSA encryption of the password under the key
_encrypt_password(password, rsa_params) ==
    [b64 |-> "rsa", plaintext |-> password, key |-> rsa_params.rsa_key]

\* guard.generate_one_time_code(shared_secret); a code is a string, '' is <<>>
generate_one_time_code(shared_secret) == <<"totp", shared_secret>>
EmptyString == <<>>

\* _prepare_login_request_data: the form fields that vary
_prepare_login_request_data(executor, encrypted_password, rsa_timestamp) ==
    [ password |-> encrypted_password,
      username |-> executor.username,
      twofactorcode |-> executor.one_time_code,
      rsatimestamp |-> rsa_timestamp ]

\* _check_for_captcha: the exception it raises, if any
_check_for_captcha(login_response) ==
    IF login_response.captcha_needed
    THEN Raise("CaptchaRequired", "Captcha required")
    ELSE NoError

\* _enter_steam_guard_if_necessary: the test data.get('requires_twofactor')
RequiresTwofactor(login_response) == login_response.requires_twofactor

\* a slip in _assert_valid_credentials: only a missing success field raises
_assert_valid_credentials_lenient(login_response) ==
    IF login_response.success = Absent THEN Raise("KeyError", "success") ELSE NoError

\* _assert_valid_credentials: the exception it raises, if any
_assert_valid_credentials(login_response) ==
    IF login_response.success = Absent THEN Raise("KeyError", "success")
    ELSE IF login_response.success # "true" THEN RaiseWith("InvalidCredentials", login_response)
    ELSE NoError

\* a slip in _perform_redirects: the test of parameters is left out
RedirectsError_unchecked(response_dict) ==
    IF response_dict.transfer_urls = Nothing THEN Raise("KeyError", "transfer_urls")
    ELSE NoError

\* _perform_redirects: the exception raised before the first POST, if any
RedirectsError(response_dict) ==
    IF response_dict.transfer_parameters = None
    THEN Raise("Exception", "Cannot perform redirects after login, no parameters fetched")
    ELSE IF response_dict.transfer_urls = Nothing THEN Raise("KeyError", "transfer_urls")
    ELSE NoError

\* a slip in _perform_redirects: the URLs are taken last to first
TransferPost_reversed(response_dict, i) ==
    [url |-> response_dict.transfer_urls[1][Len(response_dict.transfer_urls[1]) + 1 - i],
     data |-> response_dict.transfer_parameters]

\* _perform_redirects: the POST of the loop's turn for the i-th URL
TransferPost(response_dict, i) ==
    [url |-> response_dict.transfer_urls[1][i], data |-> response_dict.transfer_parameters]

\* set_sessionid_cookies: the lookup
\* cookie_jar._cookies['help.steampowered.com']['sessionid'] raises KeyError
\* when the jar holds no such cookie
SessionidLookupFails(jar) == ~HasCookie(jar, HELP_HOST)

\* set_sessionid_cookies: the two update_cookies calls, each with
\* response_url=URL(<the URL constant>[8:])
set_sessionid_cookies(jar) ==
    LET sessionid == CookieValue(jar, HELP_HOST)
        community_domain == DropScheme(COMMUNITY_URL)
        store_domain == DropScheme(STORE_URL)
    IN  update_cookies(update_cookies(jar, sessionid, community_domain), sessionid, store_domain)

-----------------------------------------------------------------------------
(* State *)

NoTask == [state |-> "none", repetitions |-> 0, result |-> Nothing]

NoExecutor == [username |-> None, password |-> None, one_time_code |-> EmptyString, shared_secret |-> None]

IdleCall ==
    [ pc |-> "idle",
      executor |-> NoExecutor,
      login_response |-> Nothing,   \* the local login_response of login()
      seen |-> <<>>,                \* trace: the flags of each dologin response received
      submissions |-> <<>>,         \* trace: the request_data of each POST to /login/dologin/
      codes |-> 0,                  \* trace: calls of generate_one_time_code
      rsa_requests |-> <<>>,        \* trace: per _send_login_request, the POSTs to /login/getrsakey/
      posted |-> <<>>,              \* trace: the POSTs to transfer URLs
      cookies_copied |-> FALSE,     \* trace: set_sessionid_cookies ran to its end
      error |-> NoError ]           \* the exception login() ended with

\* SteamMarket.__init__
NoMarket == [_steam_guard |-> NoGuard, _session_id |-> None, was_login_executed |-> FALSE]

\* a call of a login-required operation of the client or of its market
NoOperation ==
    [ name |-> None,                \* the method called
      pc |-> "idle",                \* the response it awaits, or "done", or "failed"
      target |-> None,              \* its argument: a trade offer id, an asset id, an order id
      requests |-> <<>>,            \* trace: the requests the call has sent, the engine's apart
      page |-> Nothing,             \* trace: what the call read in the last page it got
      confirming |-> None,          \* the id it hands to the confirmation engine
      result |-> None,              \* what it returned
      error |-> NoError ]           \* the exception it ended with

\* the parameters of a confirmation request that has no params dict
NoParams == [p |-> <<>>, a |-> None, k |-> <<>>, t |-> 0, m |-> None, tag |-> <<>>,
             op |-> <<>>, cid |-> <<>>, ck |-> <<>>]

\* a ConfirmationExecutor and the call of send_trade_allow_request or of
\* confirm_sell_listing made on it
NoConfirmation ==
    [ pc |-> "idle",                \* the response it awaits, or "done", or "failed"
      method |-> None,              \* send_trade_allow_request or confirm_sell_listing
      target |-> None,              \* trade_offer_id or asset_id
      _identity_secret |-> None,
      _my_steam_id |-> None,
      page |-> Nothing,             \* trace: the confirmations page received
      confirmations |-> <<>>,       \* the local list of Confirmation objects
      requests |-> <<>>,            \* trace: the requests sent, in order
      extracted |-> <<>>,           \* trace: the identifier read from each detail page, if any
      time |-> 0,                   \* trace: int(time.time()) at the executor's last step
      error |-> NoError ]

Init ==
    /\ was_login_executed = FALSE
    /\ username = None
    /\ steam_guard = NoGuard
    /\ cookie_jar = <<>>
    /\ calls = [c \in Calls |-> IdleCall]
    /\ tasks = [c \in Calls |-> NoTask]
    /\ market = NoMarket
    /\ op = NoOperation
    /\ conf = NoConfirmation

Flags(login_response) ==
    [ captcha_needed |-> login_response.captcha_needed,
      requires_twofactor |-> login_response.requires_twofactor ]

\* LoginExecutor.login ends with an exception
Fail(call, error) == [call EXCEPT !.pc = "failed", !.error = error]

\* a slip in SteamClient.login: the flag is set whatever login() raised
FlagAfterLogin_always(flag, error) == TRUE

\* SteamClient.login, after await login_executor.login(): the assignment
\* self.was_login_executed = True is reached only when login() raised nothing
FlagAfterLogin(flag, error) == IF error.kind = None THEN TRUE ELSE flag

\* the login call of coroutine c ends as `call`, with the jar as `jar`
LoginEnds(c, call, jar) ==
    /\ calls' = [calls EXCEPT ![c] = call]
    /\ cookie_jar' = jar
    /\ was_login_executed' = FlagAfterLogin(was_login_executed, call.error)

\* the login call of coroutine c goes on as `call`, awaiting its next response
LoginGoesOn(c, call, jar) ==
    /\ calls' = [calls EXCEPT ![c] = call]
    /\ cookie_jar' = jar
    /\ UNCHANGED was_login_executed

\* _send_login_request up to its first await: _fetch_rsa_params(0) POSTs to
\* /login/getrsakey/
SendLoginRequest(call) ==
    [call EXCEPT !.pc = "getrsakey", !.rsa_requests = Append(@, 1)]

-----------------------------------------------------------------------------
(* Actions *)

\* SteamClient.login(username, password, steam_guard) up to the first await
\* of a response.  A coroutine starts its next login call when the previous
\* one has ended and the key-fetch tasks it left behind have come to rest;
\* the new call has a new LoginExecutor and a new trace
Login(c, u, p, g) ==
    /\ calls[c].pc \in {"idle", "done", "failed"}
    /\ tasks[c].state \notin {"scheduled", "waiting"}
    /\ steam_guard' = g
    /\ username' = u
    /\ calls' = [calls EXCEPT ![c] =
          SendLoginRequest([IdleCall EXCEPT
              !.executor = [username |-> u, password |-> p,
                            one_time_code |-> EmptyString,
                            shared_secret |-> g.shared_secret]])]
    /\ tasks' = [tasks EXCEPT ![c] = NoTask]
    /\ UNCHANGED <<was_login_executed, cookie_jar>>

\* the answer to /login/getrsakey/ arrives in _fetch_rsa_params(0); with a
\* complete key _send_login_request goes on to POST /login/dologin/.  With an
\* incomplete key the except branch returns asyncio.ensure_future(...), a Task,
\* as rsa_params, and _encrypt_password's rsa_params['rsa_key'] raises
\* TypeError out of login()
RsaKeyResponse(c, key_response) ==
    LET call == calls[c]
        jar == cookie_jar
    IN
    /\ call.pc = "getrsakey"
    /\ IF ~RaisesKeyError(key_response)
       THEN LET rsa_params == RsaParams(key_response)
                encrypted_password == _encrypt_password(call.executor.password, rsa_params)
                request_data == _prepare_login_request_data(
                                    call.executor, encrypted_password, rsa_params.rsa_timestamp)
            IN  /\ LoginGoesOn(c, [call EXCEPT !.pc = "dologin",
                                               !.submissions = Append(@, request_data)], jar)
                /\ UNCHANGED tasks
       ELSE IF MayRepeat(0)
       THEN /\ tasks' = [tasks EXCEPT ![c] =
                   [state |-> "scheduled", repetitions |-> 1, result |-> Nothing]]
            /\ LoginEnds(c, Fail(call, Raise("TypeError", "'Task' object is not subscriptable")), jar)
       ELSE /\ LoginEnds(c, Fail(call, Raise("ValueError", "Could not obtain rsa-key")), jar)
            /\ UNCHANGED tasks
    /\ UNCHANGED <<username, steam_guard>>
    /\ UNCHANGED operation_vars

\* set_sessionid_cookies and the return of LoginExecutor.login
FinishLogin(c, call, jar) ==
    IF SessionidLookupFails(jar)
    THEN LoginEnds(c, Fail(call, Raise("KeyError", "sessionid")), jar)
    ELSE LoginEnds(c, [call EXCEPT !.pc = "done", !.cookies_copied = TRUE],
                   set_sessionid_cookies(jar))

\* a slip in login(): _enter_steam_guard_if_necessary is called a second
\* time, on the answer to the resubmission
AssertAndRedirect_again(c, call, jar) ==
    LET response == call.login_response[1]
        invalid == _assert_valid_credentials(response)
        broken == RedirectsError(response)
    IN  IF RequiresTwofactor(response) /\ Len(call.submissions) = 2
        THEN LoginGoesOn(c, SendLoginRequest([call EXCEPT !.codes = @ + 1]), jar)
        ELSE IF invalid.kind # None THEN LoginEnds(c, Fail(call, invalid), jar)
        ELSE IF broken.kind # None THEN LoginEnds(c, Fail(call, broken), jar)
        ELSE IF response.transfer_urls[1] = <<>> THEN FinishLogin(c, call, jar)
        ELSE LoginGoesOn(c, [call EXCEPT !.pc = "transfer",
                                         !.posted = <<TransferPost(response, 1)>>], jar)

\* login() from _assert_valid_credentials on, up to the first transfer POST
AssertAndRedirect(c, call, jar) ==
    LET response == call.login_response[1]
        invalid == _assert_valid_credentials(response)
        broken == RedirectsError(response)
    IN  IF invalid.kind # None THEN LoginEnds(c, Fail(call, invalid), jar)
        ELSE IF broken.kind # None THEN LoginEnds(c, Fail(call, broken), jar)
        ELSE IF response.transfer_urls[1] = <<>> THEN FinishLogin(c, call, jar)
        ELSE LoginGoesOn(c, [call EXCEPT !.pc = "transfer",
                                         !.posted = <<TransferPost(response, 1)>>], jar)

\* the answer to /login/dologin/ arrives: _send_login_request returns it,
\* either to login() (first submission) or to _enter_steam_guard_if_necessary
\* (resubmission), and login() runs on to its next request
LoginResponse(c, response, set_cookie) ==
    LET call == calls[c]
        jar == ReceiveCookies(cookie_jar, set_cookie, STORE_URL)
        got == [call EXCEPT !.login_response = Some(response),
                            !.seen = Append(@, Flags(response))]
        captcha == _check_for_captcha(response)
    IN
    /\ call.pc = "dologin"
    /\ IF Len(call.submissions) = 1
       THEN \* login(): _check_for_captcha, _enter_steam_guard_if_necessary, ...
            IF captcha.kind # None THEN LoginEnds(c, Fail(got, captcha), jar)
            ELSE IF RequiresTwofactor(response)
            THEN LoginGoesOn(c, SendLoginRequest([got EXCEPT
                        !.executor.one_time_code =
                            generate_one_time_code(call.executor.shared_secret),
                        !.codes = @ + 1]), jar)
            ELSE AssertAndRedirect(c, got, jar)
       ELSE \* the return value of _enter_steam_guard_if_necessary
            AssertAndRedirect(c, got, jar)
    /\ UNCHANGED <<username, steam_guard, tasks>>
    /\ UNCHANGED operation_vars

\* the answer to a transfer POST arrives and is read: the loop of
\* _perform_redirects goes on to the next URL, or login() to
\* set_sessionid_cookies
TransferResponse(c, set_cookie) ==
    LET call == calls[c]
        response == call.login_response[1]
        n == Len(call.posted)
        jar == ReceiveCookies(cookie_jar, set_cookie, call.posted[n].url)
    IN
    /\ call.pc = "transfer"
    /\ IF n < Len(response.transfer_urls[1])
       THEN LoginGoesOn(c, [call EXCEPT !.posted = Append(@, TransferPost(response, n + 1))], jar)
       ELSE FinishLogin(c, call, jar)
    /\ UNCHANGED <<username, steam_guard, tasks>>
    /\ UNCHANGED operation_vars

\* the event loop starts the task of asyncio.ensure_future: its
\* _fetch_rsa_params(n) POSTs to /login/getrsakey/
TaskStart(c) ==
    /\ tasks[c].state = "scheduled"
    /\ tasks' = [tasks EXCEPT ![c].state = "waiting"]
    /\ calls' = [calls EXCEPT ![c].rsa_requests[Len(calls[c].rsa_requests)] = @ + 1]
    /\ UNCHANGED <<was_login_executed, username, steam_guard, cookie_jar>>
    /\ UNCHANGED operation_vars

\* the answer to the task's key request arrives: the task ends with the
\* key, with another task, or with ValueError, which nobody awaits
TaskResponse(c, key_response) ==
    LET task == tasks[c] IN
    /\ task.state = "waiting"
    /\ tasks' = [tasks EXCEPT ![c] =
          IF ~RaisesKeyError(key_response)
          THEN [task EXCEPT !.state = "returned", !.result = Some(RsaParams(key_response))]
          ELSE IF MayRepeat(task.repetitions)
          THEN [task EXCEPT !.state = "scheduled", !.repetitions = @ + 1]
          ELSE [task EXCEPT !.state = "raised"]]
    /\ UNCHANGED <<was_login_executed, username, steam_guard, cookie_jar, calls>>
    /\ UNCHANGED operation_vars

NextOf(running) ==
    \/ \E c \in running, a \in Accounts :
          Login(c, a.username, a.password, a.steam_guard) /\ UNCHANGED operation_vars
    \/ \E c \in running, k \in RsaKeyResponses : RsaKeyResponse(c, k)
    \/ \E c \in running, r \in LoginResponses, s \in SetCookies : LoginResponse(c, r, s)
    \/ \E c \in running, s \in SetCookies : TransferResponse(c, s)
    \/ \E c \in running : TaskStart(c)
    \/ \E c \in running, k \in RsaKeyResponses : TaskResponse(c, k)

Next == NextOf(Sequential)

Spec == Init /\ [][Next]_vars

-----------------------------------------------------------------------------
(* SteamClient (steampy/client.py) and SteamMarket (steampy/market.py):     *)
(* the operations behind login_required.  A call of an operation is a       *)
(* coroutine like a login call; the caller awaits each call before it makes *)
(* the next.                                                                *)

\* the methods of SteamClient decorated with login_required
ClientOperations ==
    { "logout", "is_session_alive", "get_my_inventory", "get_partner_inventory",
      "accept_trade_offer", "make_offer", "make_offer_with_url",
      "get_escrow_duration", "is_trade_link_correct" }

\* the methods of SteamMarket decorated with login_required
MarketOperations ==
    { "get_my_market_listings", "create_sell_order", "create_buy_order",
      "cancel_sell_order", "cancel_buy_order" }

\* the ids a caller passes and the provider answers with: trade offers,
\* assets, orders
Targets == {"id1", "id2"}

\* the argument of a call: an id where the method takes one
TargetsOf(name) ==
    IF name \in { "accept_trade_offer", "create_sell_order", "cancel_sell_order",
                  "cancel_buy_order" }
    THEN Targets ELSE {None}

\* a response to a request of an operation, as what the code reads in it
Page ==
    [ json |-> TRUE,                       \* the text parses: json.loads, int() take it
      shows |-> None,                      \* the account name the page displays
      needs_mobile_confirmation |-> FALSE,
      tradeofferid |-> None,
      trade_offer_state |-> "Active",
      invalid_api_key |-> FALSE,           \* the text holds the 'Access is denied' message
      new_device |-> FALSE,                \* the text holds the new-device hold message
      status_code |-> 200,
      has_status_code |-> TRUE,            \* the response object has the attribute status_code
      success |-> 1,
      end_marker |-> FALSE,                \* the text holds tabContentsMyActiveMarketListings_end
      more |-> FALSE ]                     \* n_total > n_showing

Pages ==
    { Page,
      [Page EXCEPT !.json = FALSE],
      [Page EXCEPT !.shows = "ALICE"],
      [Page EXCEPT !.shows = "bob"],
      [Page EXCEPT !.trade_offer_state = "Canceled"],
      [Page EXCEPT !.invalid_api_key = TRUE],
      [Page EXCEPT !.new_device = TRUE],
      [Page EXCEPT !.status_code = 500],
      [Page EXCEPT !.has_status_code = FALSE],
      [Page EXCEPT !.success = 0],
      [Page EXCEPT !.end_marker = TRUE],
      [Page EXCEPT !.end_marker = TRUE, !.more = TRUE] }
    \cup { [Page EXCEPT !.needs_mobile_confirmation = TRUE, !.tradeofferid = t] : t \in Targets }

\* str.lower()
Lower(s) == IF s = "ALICE" THEN "alice" ELSE s

\* a slip in login_required: the wrapper lets every call through
login_required_never(flag) == NoError

\* client.py login_required: what func_wrapper raises, if anything
login_required(flag) ==
    IF ~flag THEN Raise("LoginRequired", "Use login method first") ELSE NoError

\* market.py login_required: what func_wrapper raises, if anything
market_login_required(flag) ==
    IF ~flag THEN Raise("LoginRequired", "Use login method first on SteamClient") ELSE NoError

\* SteamClient._get_session_id: the sessionid of the first domain of the jar
\* that holds one; the loop falls through, and the method returns None, when
\* no domain does
_get_session_id(jar) == IF jar = <<>> THEN None ELSE jar[1][2]

\* a request of an operation: its method, its URL and the sessionid
\* parameter it carries (Absent when it has no such parameter)
Request(method, url, sessionid) == [method |-> method, url |-> url, sessionid |-> sessionid]

\* the call sends a request and awaits its response
Sends(o, pc, request) == [o EXCEPT !.pc = pc, !.requests = Append(@, request)]
\* session.post(url, data, ...) hands the form data over as a positional
\* argument.  The session either takes it and sends the request or raises
\* TypeError: `accepted`
Posts(o, pc, request, accepted) ==
    IF accepted THEN Sends(o, pc, request)
    ELSE [o EXCEPT !.pc = "failed",
                   !.error = Raise("TypeError", "post() takes 2 positional arguments but 3 were given")]
\* the call returns
Returns(o, result) == [o EXCEPT !.pc = "done", !.result = result]
\* the call ends with an exception
Raises(o, error) == [o EXCEPT !.pc = "failed", !.error = error]
\* the call hands an id to the confirmation engine
Confirms(o, id) == [o EXCEPT !.pc = "confirm", !.confirming = id]

Ended(pc) == pc \in {"idle", "done", "failed"}

\* `await x`: an object that is no awaitable raises TypeError; response.text
\* is a bound method, response.text() a coroutine
AwaitOf(type) ==
    IF type = "coroutine" THEN NoError
    ELSE Raise("TypeError", "object method can't be used in 'await' expression")

\* SteamClient.is_session_alive up to the GET of the community page
is_session_alive(o, pc) == Sends(o, pc, Request("GET", COMMUNITY_URL, Absent))

\* SteamClient.is_session_alive: the value returned
SessionAlive(steam_login, page) == Lower(steam_login) = Lower(page.shows)

\* SteamClient.logout up to the POST of the logout request
logout(o, jar, accepted) ==
    Posts(o, "logout", Request("POST", STORE_URL \o <<"/logout/">>, _get_session_id(jar)),
          accepted)

\* SteamClient.logout when the answer to the logout request arrives:
\* `await response.text`, then the probe of is_session_alive
logout_response(o, flag) ==
    LET awaited == AwaitOf("method")
        refused == login_required(flag)
    IN  IF awaited.kind # None THEN Raises(o, awaited)
        ELSE IF refused.kind # None THEN Raises(o, refused)
        ELSE is_session_alive(o, "logout_probe")

\* SteamClient.logout when the probe is answered
logout_probe(o, steam_login, page) ==
    IF SessionAlive(steam_login, page)
    THEN Raises([o EXCEPT !.page = Some(page)], Raise("Exception", "Logout unsuccessful"))
    ELSE Returns([o EXCEPT !.page = Some(page)], None)

\* SteamClient.get_my_inventory up to its GET
get_my_inventory(o) ==
    Sends(o, "inventory", Request("GET", COMMUNITY_URL \o <<"/my/inventory/json/">>, Absent))

\* SteamClient.get_partner_inventory up to its GET
get_partner_inventory(o, jar) ==
    Sends(o, "inventory",
          Request("GET", COMMUNITY_URL \o <<"/tradeoffer/new/partnerinventory/">>,
                  _get_session_id(jar)))

\* json.loads of a response text
JsonLoads(o, page) ==
    IF page.json THEN Returns(o, "data") ELSE Raises(o, Raise("JSONDecodeError", "Expecting value"))

\* SteamClient.accept_trade_offer up to the GET of get_trade_offer (api_call)
accept_trade_offer(o) ==
    Sends(o, "get_trade_offer",
          Request("GET", <<"SteamUrl.API_URL", "CEconService", "GetTradeOffer", "v1">>, Absent))

\* what accept_trade_offer reads in the answers to its two GETs: the trade
\* offer of get_trade_offer and, added to it, the offer page of
\* _fetch_trade_partner_id
TradeOfferRead(page) ==
    [Page EXCEPT !.invalid_api_key = page.invalid_api_key, !.json = page.json,
                 !.trade_offer_state = page.trade_offer_state]
OfferPageRead(read, page) == [read EXCEPT !.new_device = page.new_device]

\* a slip in accept_trade_offer: the test of the state is left out
get_trade_offer_response_unchecked(o, page) ==
    LET read == [o EXCEPT !.page = Some(TradeOfferRead(page))] IN
    IF page.invalid_api_key THEN Raises(read, Raise("InvalidCredentials", "Invalid API key"))
    ELSE IF ~page.json THEN Raises(read, Raise("JSONDecodeError", "Expecting value"))
    ELSE Sends(read, "fetch_trade_partner_id",
               Request("GET", COMMUNITY_URL \o <<"/tradeoffer/", o.target>>, Absent))

\* accept_trade_offer when the trade offer arrives: api_call's key check,
\* the state check, then the GET of _fetch_trade_partner_id
get_trade_offer_response(o, page) ==
    LET read == [o EXCEPT !.page = Some(TradeOfferRead(page))] IN
    IF page.invalid_api_key THEN Raises(read, Raise("InvalidCredentials", "Invalid API key"))
    ELSE IF ~page.json THEN Raises(read, Raise("JSONDecodeError", "Expecting value"))
    ELSE IF page.trade_offer_state # "Active"
    THEN Raises(read, Raise("ApiException", "Invalid trade offer state"))
    ELSE Sends(read, "fetch_trade_partner_id",
               Request("GET", COMMUNITY_URL \o <<"/tradeoffer/", o.target>>, Absent))

\* accept_trade_offer when the offer page arrives: the hold check of
\* _fetch_trade_partner_id, then the accept POST
_fetch_trade_partner_id_response(o, page, jar) ==
    LET read == [o EXCEPT !.page = Some(OfferPageRead(o.page[1], page))] IN
    IF page.new_device
    THEN Raises(read, Raise("SevenDaysHoldException",
                            "Account has logged in a new device and can't trade for 7 days"))
    ELSE Sends(read, "accept",
               Request("POST", COMMUNITY_URL \o <<"/tradeoffer/", o.target, "/accept">>,
                       _get_session_id(jar)))

\* what a method reads in the answer to its POST, added to what it read
\* before: data.get('needs_mobile_confirmation'), data['tradeofferid']
DataRead(read, page) ==
    [read EXCEPT !.needs_mobile_confirmation = page.needs_mobile_confirmation,
                 !.tradeofferid = page.tradeofferid]

\* a slip in accept_trade_offer: the confirmation is sent whatever the answer
accept_response_unasked(o, page) ==
    LET read == [o EXCEPT !.page = Some(DataRead(o.page[1], page))] IN
    IF ~page.json THEN Raises(o, Raise("JSONDecodeError", "Expecting value"))
    ELSE Confirms(read, o.target)

\* accept_trade_offer when the answer to the accept POST arrives
accept_response(o, page) ==
    LET read == [o EXCEPT !.page = Some(DataRead(o.page[1], page))] IN
    IF ~page.json THEN Raises(o, Raise("JSONDecodeError", "Expecting value"))
    ELSE IF page.needs_mobile_confirmation THEN Confirms(read, o.target)
    ELSE Returns(read, "data")

\* SteamClient.make_offer and make_offer_with_url up to the POST of the offer
make_offer(o, jar) ==
    Sends(o, "send", Request("POST", COMMUNITY_URL \o <<"/tradeoffer/new/send">>,
                             _get_session_id(jar)))

\* make_offer and make_offer_with_url when the answer to the POST arrives
make_offer_response(o, page) ==
    LET read == [o EXCEPT !.page = Some(DataRead(Page, page))] IN
    IF ~page.json THEN Raises(o, Raise("JSONDecodeError", "Expecting value"))
    ELSE IF page.needs_mobile_confirmation THEN Confirms(read, page.tradeofferid)
    ELSE Returns(read, "data")

\* SteamClient.get_escrow_duration up to its GET of the trade offer URL
get_escrow_duration(o) ==
    Sends(o, "escrow", Request("GET", COMMUNITY_URL \o <<"/tradeoffer/new/">>, Absent))

\* SteamClient.is_trade_link_correct up to its GET of the trade link
is_trade_link_correct(o) ==
    Sends(o, "trade_link", Request("GET", COMMUNITY_URL \o <<"/tradeoffer/new/">>, Absent))

\* SteamMarket._set_login_executed
_set_login_executed(steamguard, session_id) ==
    [_steam_guard |-> steamguard, _session_id |-> session_id, was_login_executed |-> TRUE]

\* response.status_code on a response of the session SteamMarket was made
\* with: SteamClient passes an aiohttp.ClientSession, whose responses name
\* the code `status`; a response without the attribute raises AttributeError
status_code(page) ==
    IF page.has_status_code THEN NoError
    ELSE Raise("AttributeError", "'ClientResponse' object has no attribute 'status_code'")

\* SteamMarket.get_my_market_listings up to the GET of the market page
get_my_market_listings(o) ==
    Sends(o, "market", Request("GET", COMMUNITY_URL \o <<"/market">>, Absent))

\* get_my_market_listings when the market page arrives; the return is
\* inside the test of the end marker
get_my_market_listings_response(o, page) ==
    IF status_code(page).kind # None THEN Raises(o, status_code(page))
    ELSE IF page.status_code # 200
    THEN Raises(o, Raise("ApiException", "There was a problem getting the listings"))
    ELSE IF ~page.json THEN Raises(o, Raise("JSONDecodeError", "Expecting value"))
    ELSE IF ~page.end_marker THEN Returns(o, None)
    ELSE IF ~page.more THEN Returns(o, "listings")
    ELSE Sends([o EXCEPT !.page = Some(page)], "render",
               Request("GET", COMMUNITY_URL \o <<"/market/mylistings/render/">>, Absent))

\* a slip in get_my_market_listings: the text parsed is that of response2
get_my_market_listings_render_second(o, page2) ==
    LET text == page2 IN
    IF status_code(page2).kind # None THEN Raises(o, status_code(page2))
    ELSE IF page2.status_code # 200
    THEN Raises(o, Raise("ApiException", "There was a problem getting the listings"))
    ELSE IF text.end_marker \/ ~text.json
    THEN Raises(o, Raise("JSONDecodeError", "Expecting value"))
    ELSE Returns(o, "listings")

\* get_my_market_listings when the answer of the render URL arrives:
\* json.loads(await response.text()) takes the text of `response`, the first
\* response, not of response2.  A text that holds the span
\* <span id="tabContentsMyActiveMarketListings_end"> is no JSON document;
\* with a document the listings of the two pages are merged and returned
get_my_market_listings_render(o, page2) ==
    LET text == o.page[1] IN
    IF status_code(page2).kind # None THEN Raises(o, status_code(page2))
    ELSE IF page2.status_code # 200
    THEN Raises(o, Raise("ApiException", "There was a problem getting the listings"))
    ELSE IF text.end_marker \/ ~text.json
    THEN Raises(o, Raise("JSONDecodeError", "Expecting value"))
    ELSE Returns(o, "listings")

\* SteamMarket.create_sell_order up to its POST
create_sell_order(o, mkt, accepted) ==
    Posts(o, "sellitem",
          Request("POST", COMMUNITY_URL \o <<"/market/sellitem/">>, mkt._session_id), accepted)

\* create_sell_order when the answer arrives
create_sell_order_response(o, page) ==
    LET read == [o EXCEPT !.page = Some(DataRead(Page, page))] IN
    IF ~page.json THEN Raises(o, Raise("JSONDecodeError", "Expecting value"))
    ELSE IF page.needs_mobile_confirmation THEN Confirms(read, o.target)
    ELSE Returns(read, "data")

\* SteamMarket.create_buy_order up to its POST
create_buy_order(o, mkt, accepted) ==
    Posts(o, "order",
          Request("POST", COMMUNITY_URL \o <<"/market/createbuyorder/">>, mkt._session_id),
          accepted)

\* SteamMarket.cancel_buy_order up to its POST
cancel_buy_order(o, mkt, accepted) ==
    Posts(o, "order",
          Request("POST", COMMUNITY_URL \o <<"/market/cancelbuyorder/">>, mkt._session_id),
          accepted)

\* create_buy_order and cancel_buy_order when the answer arrives
order_response(o, page) ==
    IF ~page.json THEN Raises(o, Raise("JSONDecodeError", "Expecting value"))
    ELSE IF page.success # 1 THEN Raises(o, Raise("ApiException", "There was a problem with the order"))
    ELSE Returns(o, "data")

\* SteamMarket.cancel_sell_order up to its POST
cancel_sell_order(o, mkt) ==
    Sends(o, "removelisting",
          Request("POST", COMMUNITY_URL \o <<"/market/removelisting/", o.target>>, mkt._session_id))

\* cancel_sell_order when the answer arrives
cancel_sell_order_response(o, page) ==
    IF status_code(page).kind # None THEN Raises(o, status_code(page))
    ELSE IF page.status_code # 200
    THEN Raises(o, Raise("ApiException", "There was a problem removing the listing"))
    ELSE Returns(o, None)

\* the body of the method called, up to its first await
Begin(o, jar, mkt, accepted) ==
    CASE o.name = "logout" -> logout(o, jar, accepted)
      [] o.name = "is_session_alive" -> is_session_alive(o, "is_session_alive")
      [] o.name = "get_my_inventory" -> get_my_inventory(o)
      [] o.name = "get_partner_inventory" -> get_partner_inventory(o, jar)
      [] o.name = "accept_trade_offer" -> accept_trade_offer(o)
      [] o.name \in {"make_offer", "make_offer_with_url"} -> make_offer(o, jar)
      [] o.name = "get_escrow_duration" -> get_escrow_duration(o)
      [] o.name = "is_trade_link_correct" -> is_trade_link_correct(o)
      [] o.name = "get_my_market_listings" -> get_my_market_listings(o)
      [] o.name = "create_sell_order" -> create_sell_order(o, mkt, accepted)
      [] o.name = "create_buy_order" -> create_buy_order(o, mkt, accepted)
      [] o.name = "cancel_sell_order" -> cancel_sell_order(o, mkt)
      [] o.name = "cancel_buy_order" -> cancel_buy_order(o, mkt, accepted)

\* the method goes on when the response it awaits arrives
Continue(o, page, flag, steam_login, jar) ==
    CASE o.pc = "logout" -> logout_response(o, flag)
      [] o.pc = "logout_probe" -> logout_probe(o, steam_login, page)
      [] o.pc = "is_session_alive" ->
             Returns([o EXCEPT !.page = Some(page)],
                     IF SessionAlive(steam_login, page) THEN "True" ELSE "False")
      [] o.pc \in {"inventory", "escrow"} -> JsonLoads(o, page)
      [] o.pc = "trade_link" -> Returns(o, "data")
      [] o.pc = "get_trade_offer" -> get_trade_offer_response(o, page)
      [] o.pc = "fetch_trade_partner_id" -> _fetch_trade_partner_id_response(o, page, jar)
      [] o.pc = "accept" -> accept_response(o, page)
      [] o.pc = "send" -> make_offer_response(o, page)
      [] o.pc = "market" -> get_my_market_listings_response(o, page)
      [] o.pc = "render" -> get_my_market_listings_render(o, page)
      [] o.pc = "sellitem" -> create_sell_order_response(o, page)
      [] o.pc = "order" -> order_response(o, page)
      [] o.pc = "removelisting" -> cancel_sell_order_response(o, page)
-----------------------------------------------------------------------------
(* ConfirmationExecutor (steampy/confirmation.py)                           *)

CONF_URL == COMMUNITY_URL \o <<"/mobileconf">>

\* int(time.time()) at the calls of _create_confirmation_params
MaxTime == 2
Times == 1..MaxTime

\* longest list of entries a confirmations page carries
MaxEntries == 3

\* the div.mobileconf_list_entry elements of a confirmations page: the
\* attributes id ('conf' and a number), data-confid and data-key
Entries ==
    { [id |-> <<"conf", n>>, data_confid |-> <<"confid", n>>, data_key |-> <<"key", n>>] :
        n \in {"1", "2"} }

\* the answers of /mobileconf/conf: the text holds the incorrect-codes
\* message or not, a #mobileconf_empty element or not, and its entries
ListPages ==
    { [rejected |-> r, empty |-> e, entries |-> l, json |-> FALSE, identifier |-> Absent] :
        r \in BOOLEAN, e \in BOOLEAN, l \in SeqsUpTo(Entries, MaxEntries) }

\* the answers of /mobileconf/details/<id>: JSON or not, and the identifier
\* its html embeds, if any
DetailPages ==
    { [rejected |-> FALSE, empty |-> FALSE, entries |-> <<>>, json |-> TRUE, identifier |-> i] :
        i \in Targets \cup {Absent} }
    \cup { [rejected |-> FALSE, empty |-> FALSE, entries |-> <<>>, json |-> FALSE,
            identifier |-> Absent] }

\* the answers of /mobileconf/ajaxop: JSON or not
AllowPages == { p \in DetailPages : p.identifier = Absent }

\* the answers the provider may give to the request the executor awaits
ConfirmationPages(pc) ==
    IF pc = "conf" THEN ListPages ELSE IF pc = "details" THEN DetailPages ELSE AllowPages

\* Confirmation.__init__: id is _id.split('conf')[1]
Confirmation(_id, data_confid, data_key) ==
    [id |-> _id[2], data_confid |-> data_confid, data_key |-> data_key]

\* guard.generate_confirmation_key(identity_secret, tag, timestamp)
generate_confirmation_key(identity_secret, tag, timestamp) ==
    <<"hmac", identity_secret, tag, timestamp>>

\* guard.generate_device_id(steam_id)
generate_device_id(steam_id) == <<"android", steam_id>>

\* _create_confirmation_params, awaited
_create_confirmation_params(c, tag_string, timestamp) ==
    [ p |-> generate_device_id(c._my_steam_id),
      a |-> c._my_steam_id,
      k |-> generate_confirmation_key(c._identity_secret, tag_string, timestamp),
      t |-> timestamp,
      m |-> "android",
      tag |-> tag_string,
      op |-> <<>>, cid |-> <<>>, ck |-> <<>> ]

\* a request of the executor: `awaited` tells a params dict from the
\* coroutine object of a call of _create_confirmation_params nobody awaited
ConfirmationRequest(url, awaited, params) == [url |-> url, awaited |-> awaited, params |-> params]

\* the executor ends with an exception
ConfirmationFails(c, error) == [c EXCEPT !.pc = "failed", !.error = error]

\* a slip in _confirm_transaction: the other secret of the guard is handed over
StartConfirmation_crossed(method, target, guard, accepted) ==
    LET executor == [NoConfirmation EXCEPT !.method = method, !.target = target,
                                           !._identity_secret = guard.shared_secret,
                                           !._my_steam_id = guard.steamid]
    IN  IF accepted
        THEN [executor EXCEPT !.pc = "conf",
                 !.requests = <<ConfirmationRequest(CONF_URL \o <<"/conf">>, FALSE, NoParams)>>]
        ELSE ConfirmationFails(executor, Raise("TypeError", "Invalid query type"))

\* send_trade_allow_request and confirm_sell_listing up to the GET of
\* _fetch_confirmations_page, which hands the session the coroutine object
\* of _create_confirmation_params(tag) as params.  The session either takes
\* it and sends the request or raises TypeError: `accepted`
StartConfirmation(method, target, guard, accepted) ==
    LET executor == [NoConfirmation EXCEPT !.method = method, !.target = target,
                                           !._identity_secret = guard.identity_secret,
                                           !._my_steam_id = guard.steamid]
    IN  IF accepted
        THEN [executor EXCEPT !.pc = "conf",
                 !.requests = <<ConfirmationRequest(CONF_URL \o <<"/conf">>, FALSE, NoParams)>>]
        ELSE ConfirmationFails(executor, Raise("TypeError", "Invalid query type"))

\* a python object: its type and, for a str, its text
StrOf(text) == [type |-> "str", text |-> text]

\* a slip in _fetch_confirmations_page: the test of the message is left out
_fetch_confirmations_page_unchecked(page) == [error |-> NoError, value |-> StrOf(page)]

\* _fetch_confirmations_page when the answer arrives: the exception raised,
\* or the value returned, which is `text`
_fetch_confirmations_page(page) ==
    IF page.rejected
    THEN [error |-> Raise("InvalidCredentials", "Invalid Steam Guard file"), value |-> StrOf(page)]
    ELSE [error |-> NoError, value |-> StrOf(page)]

\* the entries of a page as Confirmation objects
Parse(entries) ==
    [ i \in 1..Len(entries) |->
        Confirmation(entries[i].id, entries[i].data_confid, entries[i].data_key) ]

\* a slip in _get_confirmations: the page is read as it is and the test of
\* #mobileconf_empty is left out
_get_confirmations_unmarked(confirmations_page) ==
    [error |-> NoError, confirmations |-> Parse(confirmations_page.text.entries)]

\* _get_confirmations from confirmations_page.text on: a str has no
\* attribute text
_get_confirmations(confirmations_page) ==
    IF confirmations_page.type # "Response"
    THEN [error |-> Raise("AttributeError", "'str' object has no attribute 'text'"),
          confirmations |-> <<>>]
    ELSE IF confirmations_page.text.empty THEN [error |-> NoError, confirmations |-> <<>>]
    ELSE [error |-> NoError, confirmations |-> Parse(confirmations_page.text.entries)]

\* _fetch_confirmation_details_page up to its GET
_fetch_confirmation_details_page(c, confirmation, timestamp) ==
    [c EXCEPT !.pc = "details",
              !.requests = Append(@, ConfirmationRequest(
                  CONF_URL \o <<"/details/", confirmation.id>>, TRUE,
                  _create_confirmation_params(c, <<"details", confirmation.id>>, timestamp)))]

\* a slip in _send_confirmation: the params of the request before are used again
_send_confirmation_reused(c, confirmation, timestamp) ==
    [c EXCEPT !.pc = "allow",
              !.requests = Append(@, ConfirmationRequest(
                  CONF_URL \o <<"/ajaxop">>, TRUE,
                  [c.requests[Len(c.requests)].params EXCEPT
                      !.op = << <<"allow">> >>,
                      !.cid = confirmation.data_confid,
                      !.ck = confirmation.data_key]))]

\* _send_confirmation up to its GET; params['op'] = tag.value, is the
\* 1-tuple of the string
_send_confirmation(c, confirmation, timestamp) ==
    [c EXCEPT !.pc = "allow",
              !.requests = Append(@, ConfirmationRequest(
                  CONF_URL \o <<"/ajaxop">>, TRUE,
                  [_create_confirmation_params(c, <<"allow">>, timestamp) EXCEPT
                      !.op = << <<"allow">> >>,
                      !.cid = confirmation.data_confid,
                      !.ck = confirmation.data_key]))]

\* _select_trade_offer_confirmation and _select_sell_listing_confirmation:
\* the loop at its i-th turn, up to the GET of the details page, or past
\* its last turn
_select_confirmation(c, i, timestamp) ==
    IF i > Len(c.confirmations)
    THEN ConfirmationFails(c, Raise("ConfirmationExpected", ""))
    ELSE _fetch_confirmation_details_page(c, c.confirmations[i], timestamp)

\* the executor when the confirmations page arrives
ConfirmationsPage(c, page, timestamp) ==
    LET fetched == _fetch_confirmations_page(page)
        got == _get_confirmations(fetched.value)
        seen == [c EXCEPT !.page = Some(page)]
    IN  IF fetched.error.kind # None THEN ConfirmationFails(seen, fetched.error)
        ELSE IF got.error.kind # None THEN ConfirmationFails(seen, got.error)
        ELSE _select_confirmation([seen EXCEPT !.confirmations = got.confirmations], 1, timestamp)

\* a slip in the loop of _select_*_confirmation: a details page that does
\* not parse is passed over
DetailsPage_lenient(c, page, timestamp) ==
    LET i == Len(c.extracted) + 1
        read == [c EXCEPT !.extracted = Append(@, page.identifier)]
    IN  IF page.identifier = c.target THEN _send_confirmation(read, c.confirmations[i], timestamp)
        ELSE _select_confirmation(read, i + 1, timestamp)

\* the executor when a details page arrives: json.loads and ['html'],
\* _get_confirmation_trade_offer_id or _get_confirmation_sell_listing_id,
\* the comparison, and _send_confirmation or the next turn of the loop
DetailsPage(c, page, timestamp) ==
    LET i == Len(c.extracted) + 1
        read == [c EXCEPT !.extracted = Append(@, page.identifier)]
    IN  IF ~page.json THEN ConfirmationFails(read, Raise("JSONDecodeError", "Expecting value"))
        ELSE IF page.identifier = Absent
        THEN ConfirmationFails(read, IF c.method = "send_trade_allow_request"
                                     THEN Raise("IndexError", "list index out of range")
                                     ELSE Raise("ValueError", "substring not found"))
        ELSE IF page.identifier = c.target THEN _send_confirmation(read, c.confirmations[i], timestamp)
        ELSE _select_confirmation(read, i + 1, timestamp)

\* the executor when the answer to the allow request arrives
AllowPage(c, page) ==
    IF page.json THEN [c EXCEPT !.pc = "done"]
    ELSE ConfirmationFails(c, Raise("JSONDecodeError", "Expecting value"))

\* the executor goes on when the response it awaits arrives
ConfirmationContinue(c, page, timestamp) ==
    CASE c.pc = "conf" -> ConfirmationsPage(c, page, timestamp)
      [] c.pc = "details" -> DetailsPage(c, page, timestamp)
      [] c.pc = "allow" -> AllowPage(c, page)
-----------------------------------------------------------------------------
(* Actions of the operations and of the confirmation engine *)

\* the caller has no call in flight
Idle == Ended(op.pc) /\ Ended(conf.pc) /\ \A c \in Calls : Ended(calls[c].pc)

\* a call of a login-required method of SteamClient, through func_wrapper,
\* up to its first await; the trace of the executor before it is dropped
Call(name, target, accepted) ==
    /\ Idle
    /\ LET o == [NoOperation EXCEPT !.name = name, !.target = target]
           refused == login_required(was_login_executed)
       IN  op' = IF refused.kind # None THEN Raises(o, refused)
                 ELSE Begin(o, cookie_jar, market, accepted)
    /\ conf' = NoConfirmation
    /\ UNCHANGED <<was_login_executed, username, steam_guard, cookie_jar, calls, tasks, market>>

\* a call of a login-required method of client.market, through func_wrapper,
\* up to its first await; the trace of the executor before it is dropped
MarketCall(name, target, accepted) ==
    /\ Idle
    /\ LET o == [NoOperation EXCEPT !.name = name, !.target = target]
           refused == market_login_required(market.was_login_executed)
       IN  op' = IF refused.kind # None THEN Raises(o, refused)
                 ELSE Begin(o, cookie_jar, market, accepted)
    /\ conf' = NoConfirmation
    /\ UNCHANGED <<was_login_executed, username, steam_guard, cookie_jar, calls, tasks, market>>

\* the response the operation awaits arrives and the method runs up to its
\* next await or its end.  _confirm_transaction and _confirm_sell_listing
\* make a ConfirmationExecutor of the guard secrets and run it up to its
\* first await; logout clears the flag on its way out
Response(page, accepted) ==
    /\ ~Ended(op.pc)
    /\ op.pc # "confirm"
    /\ LET o == Continue(op, page, was_login_executed, username, cookie_jar)
           ofMarket == op.name \in MarketOperations
           engine == StartConfirmation(
                         IF ofMarket THEN "confirm_sell_listing" ELSE "send_trade_allow_request",
                         o.confirming,
                         IF ofMarket THEN market._steam_guard ELSE steam_guard,
                         accepted)
       IN  IF o.pc = "confirm"
           THEN /\ conf' = engine
                /\ op' = IF engine.pc = "failed" THEN Raises(o, engine.error) ELSE o
                /\ UNCHANGED was_login_executed
           ELSE /\ op' = o
                /\ was_login_executed' =
                       IF o.name = "logout" /\ o.pc = "done" THEN FALSE ELSE was_login_executed
                /\ UNCHANGED conf
    /\ UNCHANGED <<username, steam_guard, cookie_jar, calls, tasks, market>>

\* ConfirmationExecutor(identity_secret, my_steam_id, session)
\* .send_trade_allow_request(trade_offer_id), up to its first await
send_trade_allow_request(trade_offer_id, guard, accepted) ==
    /\ Idle
    /\ conf' = StartConfirmation("send_trade_allow_request", trade_offer_id, guard, accepted)
    /\ UNCHANGED <<was_login_executed, username, steam_guard, cookie_jar, calls, tasks,
                   market, op>>

\* ConfirmationExecutor(identity_secret, my_steam_id, session)
\* .confirm_sell_listing(asset_id), up to its first await
confirm_sell_listing(asset_id, guard, accepted) ==
    /\ Idle
    /\ conf' = StartConfirmation("confirm_sell_listing", asset_id, guard, accepted)
    /\ UNCHANGED <<was_login_executed, username, steam_guard, cookie_jar, calls, tasks,
                   market, op>>

\* the response the executor awaits arrives, at the time `timestamp` of a
\* clock that does not go back, and the executor runs up to its next await
\* or its end; the operation that awaits the executor ends with it
ConfirmationResponse(page, timestamp) ==
    /\ ~Ended(conf.pc)
    /\ timestamp >= conf.time
    /\ LET c == [ConfirmationContinue(conf, page, timestamp) EXCEPT !.time = timestamp] IN
       /\ conf' = c
       /\ op' = IF op.pc # "confirm" THEN op
                ELSE IF c.pc = "done" THEN Returns(op, "data")
                ELSE IF c.pc = "failed" THEN Raises(op, c.error)
                ELSE op
    /\ UNCHANGED <<was_login_executed, username, steam_guard, cookie_jar, calls, tasks, market>>

\* the caller takes the sessionid cookie of a domain out of the jar
ForgetSessionid(domain) ==
    /\ Idle
    /\ HasCookie(cookie_jar, domain)
    /\ cookie_jar' = SelectSeq(cookie_jar, LAMBDA cookie : cookie[1] # domain)
    /\ UNCHANGED <<was_login_executed, username, steam_guard, calls, tasks, market, op, conf>>

\* SteamClient.login called when no other call is in flight; the trace of
\* the operation before it is dropped
ClientLogin(c, u, p, g) ==
    /\ Idle
    /\ Login(c, u, p, g)
    /\ op' = NoOperation
    /\ conf' = NoConfirmation
    /\ UNCHANGED market

\* the provider of the client specification: it answers every key request
\* with a key, and a submission with a refusal or with a success that
\* transfers to help.steampowered.com
ClientKeyResponses == { k \in RsaKeyResponses : k.publickey_mod = "key1" /\ k.timestamp = "ts1" }
ClientLoginResponses ==
    { r \in LoginResponses :
        /\ ~r.captcha_needed /\ ~r.requires_twofactor
        /\ r.success # Absent
        /\ r.success = "true" =>
              /\ r.transfer_parameters = "params"
              /\ r.transfer_urls = Some(<<<<"https://", HELP_HOST, "/login/transfer">>>>) }

\* the confirmations pages of the client specification
ClientConfirmationPages(pc) ==
    { p \in ConfirmationPages(pc) : Len(p.entries) <= 1 }

ClientNext ==
    \/ \E c \in Sequential, a \in Accounts : ClientLogin(c, a.username, a.password, a.steam_guard)
    \/ \E c \in Sequential, k \in ClientKeyResponses : RsaKeyResponse(c, k)
    \/ \E c \in Sequential, r \in ClientLoginResponses, s \in SetCookies : LoginResponse(c, r, s)
    \/ \E c \in Sequential, s \in SetCookies : TransferResponse(c, s)
    \/ \E name \in ClientOperations, target \in Targets \cup {None}, accepted \in BOOLEAN :
          target \in TargetsOf(name) /\ Call(name, target, accepted)
    \/ \E name \in MarketOperations, target \in Targets \cup {None}, accepted \in BOOLEAN :
          target \in TargetsOf(name) /\ MarketCall(name, target, accepted)
    \/ \E page \in Pages, accepted \in BOOLEAN : Response(page, accepted)
    \/ \E page \in ClientConfirmationPages(conf.pc), t \in Times : ConfirmationResponse(page, t)
    \/ \E d \in Domains(cookie_jar) : ForgetSessionid(d)

ClientSpec == Init /\ [][ClientNext]_vars

EngineNext ==
    \/ \E id \in Targets, a \in Accounts, accepted \in BOOLEAN :
          send_trade_allow_request(id, a.steam_guard, accepted)
    \/ \E id \in Targets, a \in Accounts, accepted \in BOOLEAN :
          confirm_sell_listing(id, a.steam_guard, accepted)
    \/ \E page \in ConfirmationPages(conf.pc), t \in Times : ConfirmationResponse(page, t)

EngineSpec == Init /\ [][EngineNext]_vars

\* the guards of one account that differ in one secret or in both
SharedSecrets == {"shared1", "shared2"}
IdentitySecrets == {"identity1", "identity2"}
Guards == [shared_secret : SharedSecrets, identity_secret : IdentitySecrets, steamid : {"steamid1"}]

\* one account logs in, any number of times, with a provider that answers
\* every request, with any answer, and an event loop that runs every task
\* it was given: a response that is awaited arrives
AnswersKey == \E c \in Sequential, k \in RsaKeyResponses : RsaKeyResponse(c, k)
AnswersLogin == \E c \in Sequential, r \in LoginResponses : LoginResponse(c, r, "sidA")
AnswersTransfer == \E c \in Sequential : TransferResponse(c, "sidA")
RunsTask == \E c \in Sequential : TaskStart(c)
AnswersTask == \E c \in Sequential, k \in RsaKeyResponses : TaskResponse(c, k)

AnsweredNext ==
    \/ \E c \in Sequential, a \in { b \in Accounts : b.username = "alice" } :
          Login(c, a.username, a.password, a.steam_guard) /\ UNCHANGED operation_vars
    \/ AnswersKey
    \/ AnswersLogin
    \/ AnswersTransfer
    \/ RunsTask
    \/ AnswersTask

AnsweredSpec ==
    /\ Init /\ [][AnsweredNext]_vars
    /\ WF_vars(AnswersKey) /\ WF_vars(AnswersLogin) /\ WF_vars(AnswersTransfer)
    /\ WF_vars(RunsTask) /\ WF_vars(AnswersTask)

\* two coroutines call SteamClient.login on the one client, each at any
\* time, also while the other is suspended at a network call: the caller
\* gathers the two calls.  The provider answers as in the client
\* specification
ConcurrentNext ==
    \/ \E c \in Calls, a \in Accounts :
          Login(c, a.username, a.password, a.steam_guard) /\ UNCHANGED operation_vars
    \/ \E c \in Calls, k \in ClientKeyResponses : RsaKeyResponse(c, k)
    \/ \E c \in Calls, r \in ClientLoginResponses, s \in SetCookies : LoginResponse(c, r, s)
    \/ \E c \in Calls, s \in SetCookies : TransferResponse(c, s)

ConcurrentSpec == Init /\ [][ConcurrentNext]_vars

\* send_trade_allow_request and confirm_sell_listing from their second
\* statement on, `confirmations` being the Confirmation objects of `entries`:
\* _select_trade_offer_confirmation or _select_sell_listing_confirmation up
\* to the GET of the first details page, at the time `timestamp`, on an
\* executor just made
Select(method, entries, target, guard, timestamp) ==
    /\ conf = NoConfirmation
    /\ conf' = _select_confirmation(
                   [NoConfirmation EXCEPT !.method = method, !.target = target,
                                          !._identity_secret = guard.identity_secret,
                                          !._my_steam_id = guard.steamid,
                                          !.confirmations = Parse(entries),
                                          !.time = timestamp],
                   1, timestamp)
    /\ UNCHANGED <<was_login_executed, username, steam_guard, cookie_jar, calls, tasks,
                   market, op>>

\* the executor called at its two methods and, for the steps that follow
\* _get_confirmations, with a list of confirmations at hand
SelectionNext ==
    \/ EngineNext
    \/ \E entries \in SeqsUpTo(Entries, MaxEntries), id \in Targets, a \in Accounts, t \in Times :
          Select("send_trade_allow_request", entries, id, a.steam_guard, t)
    \/ \E entries \in SeqsUpTo(Entries, MaxEntries), id \in Targets, a \in Accounts, t \in Times :
          Select("confirm_sell_listing", entries, id, a.steam_guard, t)

SelectionSpec == Init /\ [][SelectionNext]_vars

\* a provider that may ask for the two-factor code
TwofactorLoginResponses ==
    { r \in LoginResponses :
        /\ ~r.captcha_needed
        /\ r.success # Absent
        /\ r.success = "true" =>
              /\ r.transfer_parameters = "params"
              /\ r.transfer_urls = Some(<<<<"https://", HELP_HOST, "/login/transfer">>>>) }

\* one account logs in with any of its guards and accepts trade offers;
\* the executor is also taken from the step that follows _get_confirmations
SecretsNext ==
    \/ \E c \in Sequential, g \in Guards : ClientLogin(c, "alice", "hunter2", g)
    \/ \E c \in Sequential, k \in ClientKeyResponses : RsaKeyResponse(c, k)
    \/ \E c \in Sequential, r \in TwofactorLoginResponses : LoginResponse(c, r, "sidA")
    \/ \E c \in Sequential : TransferResponse(c, "sidA")
    \/ \E target \in Targets, accepted \in BOOLEAN : Call("accept_trade_offer", target, accepted)
    \/ \E page \in Pages, accepted \in BOOLEAN : Response(page, accepted)
    \/ \E page \in ClientConfirmationPages(conf.pc), t \in Times : ConfirmationResponse(page, t)
    \/ \E entries \in SeqsUpTo(Entries, 1), id \in Targets, g \in Guards, t \in Times :
          Idle /\ Select("send_trade_allow_request", entries, id, g, t)

SecretsSpec == Init /\ [][SecretsNext]_vars

\* the caller does what SteamClient.login has commented out:
\* client.market._set_login_executed(client.steam_guard,
\*                                   await client._get_session_id())
set_login_executed ==
    /\ Idle
    /\ was_login_executed
    /\ market' = _set_login_executed(steam_guard, _get_session_id(cookie_jar))
    /\ UNCHANGED <<was_login_executed, username, steam_guard, cookie_jar, calls, tasks, op, conf>>

\* the client with a market the caller has set up by hand
MarketNext ==
    \/ \E c \in Sequential, a \in Accounts : ClientLogin(c, a.username, a.password, a.steam_guard)
    \/ \E c \in Sequential, k \in ClientKeyResponses : RsaKeyResponse(c, k)
    \/ \E c \in Sequential, r \in ClientLoginResponses : LoginResponse(c, r, "sidA")
    \/ \E c \in Sequential : TransferResponse(c, "sidA")
    \/ set_login_executed
    \/ \E name \in ClientOperations, target \in Targets \cup {None}, accepted \in BOOLEAN :
          target \in TargetsOf(name) /\ Call(name, target, accepted)
    \/ \E name \in MarketOperations, target \in Targets \cup {None}, accepted \in BOOLEAN :
          target \in TargetsOf(name) /\ MarketCall(name, target, accepted)
    \/ \E page \in Pages, accepted \in BOOLEAN : Response(page, accepted)
    \/ \E page \in ClientConfirmationPages(conf.pc), t \in Times : ConfirmationResponse(page, t)

MarketSpec == Init /\ [][MarketNext]_vars

-----------------------------------------------------------------------------
(* Vocabulary of the properties *)

StoreHost == raw_host(STORE_URL)
CommunityHost == raw_host(COMMUNITY_URL)

\* in this step coroutine c receives the answer to a credential submission
Receives(c) ==
    /\ calls[c].pc = "dologin"
    /\ Len(calls'[c].seen) = Len(calls[c].seen) + 1

\* in this step the login call of coroutine c ends with an exception
Fails(c) == calls[c].pc \in {"getrsakey", "dologin", "transfer"} /\ calls'[c].pc = "failed"

\* the sessionid cookie of a domain is the same before and after the step
SameCookie(domain) ==
    /\ HasCookie(cookie_jar', domain) <=> HasCookie(cookie_jar, domain)
    /\ HasCookie(cookie_jar, domain) => CookieValue(cookie_jar', domain) = CookieValue(cookie_jar, domain)

\* no cookie changes in this step but, possibly, the one the answering host sets
OnlyCookieOf(host) ==
    \A d \in Domains(cookie_jar) \cup Domains(cookie_jar') : d # host => SameCookie(d)

\* the POSTs _perform_redirects owes for a login response, in order
OwedPosts(response) ==
    [ i \in 1..Len(response.transfer_urls[1]) |->
        [url |-> response.transfer_urls[1][i], data |-> response.transfer_parameters] ]

IsPrefix(s, t) == Len(s) <= Len(t) /\ \A i \in 1..Len(s) : s[i] = t[i]

-----------------------------------------------------------------------------
(* C1: every inspected login response with captcha_needed true, the answer  *)
(* to the first submission or to the two-factor resubmission, makes login   *)
(* fail with CaptchaRequired, and no credential submission follows it.      *)
C1_CaptchaAlwaysRaises ==
    \A c \in Calls : \A i \in 1..Len(calls[c].seen) :
        calls[c].seen[i].captcha_needed =>
            /\ calls[c].error.kind = "CaptchaRequired"
            /\ Len(calls[c].submissions) = i

(* C2: every login response with requires_twofactor true and no captcha     *)
(* flag is followed by the generation of one more one-time code and one     *)
(* more _send_login_request carrying it, and the answer to a resubmission   *)
(* goes through the same inspection (captcha, two-factor, success).         *)
C2_TwofactorAlwaysResubmits ==
    \A c \in Calls : \A i \in 1..Len(calls[c].seen) :
        /\ (calls[c].seen[i].requires_twofactor /\ ~calls[c].seen[i].captcha_needed) =>
              /\ calls[c].codes = i
              /\ Len(calls[c].rsa_requests) = i + 1
              /\ calls[c].executor.one_time_code =
                     generate_one_time_code(calls[c].executor.shared_secret)
        /\ (i > 1 /\ calls[c].seen[i].captcha_needed) =>
              calls[c].error.kind = "CaptchaRequired"

(* C3: a final login response with success false and neither flag makes     *)
(* login fail with InvalidCredentials carrying that response; no transfer   *)
(* URL is posted, no session cookie is copied and the step leaves           *)
(* was_login_executed as it was.                                            *)
C3_Step ==
    \A c \in Calls :
        Receives(c) =>
            LET r == calls'[c].login_response[1] IN
            (r.success = "false" /\ ~r.captcha_needed /\ ~r.requires_twofactor) =>
                /\ calls'[c].pc = "failed"
                /\ calls'[c].error.kind = "InvalidCredentials"
                /\ calls'[c].error.data = Some(r)
                /\ calls'[c].posted = <<>>
                /\ ~calls'[c].cookies_copied
                /\ OnlyCookieOf(StoreHost)
                /\ was_login_executed' = was_login_executed
C3_InvalidCredentials == [][C3_Step]_vars

C3_Witness ==
    \E c \in Calls :
        /\ calls[c].pc = "failed"
        /\ calls[c].error.kind = "InvalidCredentials"
        /\ Len(calls[c].submissions) = 2
        /\ ~was_login_executed

(* C4: was_login_executed turns true only in the step in which a login call *)
(* reaches its end: its last response had success true, every transfer URL  *)
(* was posted and the session id cookie was copied; a step in which a login *)
(* call ends with an exception leaves the flag as it was.                   *)
Completed(call) ==
    /\ call.pc = "done"
    /\ call.error.kind = None
    /\ call.login_response # Nothing
    /\ call.login_response[1].success = "true"
    /\ call.login_response[1].transfer_urls # Nothing
    /\ call.posted = OwedPosts(call.login_response[1])
    /\ call.cookies_copied

C4_Step ==
    /\ (~was_login_executed /\ was_login_executed') =>
          \E c \in Calls : calls[c].pc \in {"dologin", "transfer"} /\ Completed(calls'[c])
    /\ \A c \in Calls : Fails(c) => was_login_executed' = was_login_executed
C5_SessionidOnEveryOrigin ==
    \A c \in Calls :
        calls[c].pc = "done" =>
            /\ HasCookie(cookie_jar, HELP_HOST)
            /\ \A d \in {CommunityHost, StoreHost} :
                  /\ HasCookie(cookie_jar, d)
                  /\ CookieValue(cookie_jar, d) = CookieValue(cookie_jar, HELP_HOST)

(* C6: the POSTs to transfer URLs made for a successful login response are, *)
(* at any time, a prefix of the response's transfer_urls in order, each     *)
(* carrying transfer_parameters; the session id cookie is copied, and login *)
(* returns, only when all of them have been made and answered.              *)
C6_RedirectsInOrderBeforeCookies ==
    \A c \in Calls :
        LET call == calls[c] IN
        /\ call.posted # <<>> =>
              /\ call.login_response # Nothing
              /\ call.login_response[1].transfer_urls # Nothing
              /\ IsPrefix(call.posted, OwedPosts(call.login_response[1]))
        /\ (call.cookies_copied \/ call.pc = "done") =>
              /\ call.login_response[1].transfer_urls # Nothing
              /\ call.posted = OwedPosts(call.login_response[1])
              /\ call.pc = "done"
        /\ call.pc = "transfer" => ~call.cookies_copied

C6_Witness ==
    \E c \in Calls :
        /\ calls[c].pc = "done"
        /\ Len(calls[c].posted) = 2
        /\ calls[c].posted[1].url # calls[c].posted[2].url

(* C7: a login response that passes the credential checks but has no        *)
(* transfer_parameters makes login fail with the redirect error: nothing is *)
(* posted to a transfer URL, no session cookie is copied, no request is     *)
(* repeated and the step leaves was_login_executed as it was.               *)
PassesChecks(c, r) ==
    /\ r.success = "true"
    /\ Len(calls[c].submissions) = 1 => (~r.captcha_needed /\ ~r.requires_twofactor)

C7_Step ==
    \A c \in Calls :
        Receives(c) =>
            LET r == calls'[c].login_response[1] IN
            (PassesChecks(c, r) /\ r.transfer_parameters = None) =>
                /\ calls'[c].pc = "failed"
                /\ calls'[c].error.kind = "Exception"
                /\ calls'[c].error.message =
                       "Cannot perform redirects after login, no parameters fetched"
                /\ calls'[c].posted = <<>>
                /\ ~calls'[c].cookies_copied
                /\ OnlyCookieOf(StoreHost)
                /\ calls'[c].submissions = calls[c].submissions
                /\ calls'[c].rsa_requests = calls[c].rsa_requests
                /\ tasks' = tasks
                /\ was_login_executed' = was_login_executed
C7_MissingTransferParameters == [][C7_Step]_vars

C7_Witness ==
    \E c \in Calls :
        /\ calls[c].pc = "failed"
        /\ calls[c].error.kind = "Exception"
        /\ calls[c].login_response[1].success = "true"
        /\ calls[c].login_response[1].transfer_urls # Nothing
        /\ calls[c].login_response[1].transfer_urls[1] # <<>>

(* C8 as claimed: for one credential submission, at most 5 requests to      *)
(* /login/getrsakey/ are issued.                                            *)
C8_AtMostFiveKeyRequests ==
    \A c \in Calls : \A i \in 1..Len(calls[c].rsa_requests) :
        calls[c].rsa_requests[i] <= maximal_number_of_repetitions

(* C8 as amended: for one credential submission, at most 6 requests to      *)
(* /login/getrsakey/ are issued, the first one and at most                  *)
(* maximal_number_of_repetitions = 5 repetitions.                           *)
C8_AtMostOnePlusFiveKeyRequests ==
    \A c \in Calls : \A i \in 1..Len(calls[c].rsa_requests) :
        calls[c].rsa_requests[i] <= 1 + maximal_number_of_repetitions

C8_Witness ==
    \E c \in Calls :
        /\ tasks[c].state = "raised"
        /\ calls[c].rsa_requests[Len(calls[c].rsa_requests)] = 1 + maximal_number_of_repetitions

(* C9: when every key response of a credential submission lacks the         *)
(* expected fields, up to the last repetition, the login call has failed    *)
(* with the 'Could not obtain rsa-key' error and has submitted nothing for  *)
(* that key fetch.                                                          *)
C9_ExhaustionReachesCaller ==
    \A c \in Calls :
        tasks[c].state = "raised" =>
            /\ calls[c].error.kind = "ValueError"
            /\ calls[c].error.message = "Could not obtain rsa-key"
            /\ Len(calls[c].submissions) = Len(calls[c].rsa_requests) - 1

(* C10: when a repetition of the key fetch gets a complete key response,    *)
(* login goes on and submits the credentials encrypted with that key,       *)
(* together with that response's timestamp.                                 *)
C10_RetriedKeyIsUsed ==
    \A c \in Calls :
        tasks[c].state = "returned" =>
            LET n == Len(calls[c].rsa_requests)
                rsa_params == tasks[c].result[1]
            IN  /\ calls[c].error.kind # "TypeError"
                /\ Len(calls[c].submissions) = n
                /\ calls[c].submissions[n].password =
                       _encrypt_password(calls[c].executor.password, rsa_params)
                /\ calls[c].submissions[n].rsatimestamp = rsa_params.rsa_timestamp

-----------------------------------------------------------------------------
(* Vocabulary of the properties of the operations *)

\* in this step the caller calls a login-required method of the client
Calling == Ended(op.pc) /\ op' # op /\ op'.name \in ClientOperations

(* C11: a call of a login-required operation of the client made while       *)
(* was_login_executed is false ends at once with LoginRequired: it sends no *)
(* request, starts no confirmation, and leaves the flag, the username, the  *)
(* guard secrets, the cookie jar and the market as they were.               *)
C11_Step ==
    (Calling /\ ~was_login_executed) =>
        /\ op'.pc = "failed"
        /\ op'.error = Raise("LoginRequired", "Use login method first")
        /\ op'.requests = <<>>
        /\ conf'.requests = <<>>
        /\ UNCHANGED <<was_login_executed, username, steam_guard, cookie_jar, market>>
C11_LoginRequiredBeforeLogin == [][C11_Step]_vars

C11_Witness ==
    /\ ~was_login_executed
    /\ username # None
    /\ op.name = "accept_trade_offer"
    /\ op.pc = "failed"
    /\ op.error.kind = "LoginRequired"

(* C12: a login-required operation of client.market called after a          *)
(* successful SteamClient.login sends its request instead of raising        *)
(* LoginRequired, and the market holds the session id and the guard         *)
(* secrets of the login.                                                    *)
C12_MarketOperationsAfterLogin ==
    (was_login_executed /\ op.name \in MarketOperations) =>
        /\ op.error.kind # "LoginRequired"
        /\ op.requests # <<>>
        /\ market._session_id # None
        /\ market._steam_guard = steam_guard

\* the operations of the client that submit the session id as a parameter
SessionIdOperations ==
    {"make_offer", "make_offer_with_url", "accept_trade_offer", "get_partner_inventory", "logout"}

(* C13: no request of make_offer, make_offer_with_url, accept_trade_offer,  *)
(* get_partner_inventory or logout is sent with a missing session id: when  *)
(* _get_session_id finds no sessionid cookie, a None, the operation fails   *)
(* before its request.                                                      *)
C13_NoRequestWithoutSessionId ==
    op.name \in SessionIdOperations =>
        \A i \in 1..Len(op.requests) : op.requests[i].sessionid # None

\* a call of logout that got past func_wrapper has ended
LogoutEnded == op.name = "logout" /\ Ended(op.pc) /\ op.error.kind # "LoginRequired"

(* C14: a logout that has ended sent the logout request with the session id *)
(* of the jar and then the probe of the community page; when the probe      *)
(* showed the username it ended with the 'Logout unsuccessful' error and    *)
(* was_login_executed is still true.                                        *)
C14_LogoutProbesAfterRequest ==
    LogoutEnded =>
        /\ Len(op.requests) = 2
        /\ op.requests[1].method = "POST"
        /\ op.requests[1].url = STORE_URL \o <<"/logout/">>
        /\ op.requests[2] = Request("GET", COMMUNITY_URL, Absent)
        /\ op.page # Nothing
        /\ SessionAlive(username, op.page[1]) =>
              /\ op.error = Raise("Exception", "Logout unsuccessful")
              /\ was_login_executed

(* C15: a logout that has ended either saw the username in its probe, or    *)
(* returned without an error and left was_login_executed false, so that the *)
(* next login-required call raises LoginRequired.                           *)
C15_LogoutClearsFlag ==
    LogoutEnded =>
        \/ op.page # Nothing /\ SessionAlive(username, op.page[1])
        \/ op.pc = "done" /\ op.error.kind = None /\ ~was_login_executed

-----------------------------------------------------------------------------
(* Vocabulary of the properties of the confirmation engine *)

\* the requests the executor has sent to /mobileconf/details/<id> and to
\* /mobileconf/ajaxop, in order
DetailRequests == SelectSeq(conf.requests, LAMBDA r : r.url[4] = "/details/")
AllowRequests == SelectSeq(conf.requests, LAMBDA r : r.url[4] = "/ajaxop")

\* the executor has ended after a confirmations page that lists entries
EndedOnEntries ==
    /\ conf.pc \in {"done", "failed"}
    /\ conf.page # Nothing
    /\ ~conf.page[1].rejected
    /\ ~conf.page[1].empty
    /\ conf.page[1].entries # <<>>

\* the exceptions of a response that does not parse
ParseErrors == {"JSONDecodeError", "IndexError", "ValueError"}

(* C16: an executor that has ended on a page with entries has fetched       *)
(* detail pages, one per entry and in the order of the list, up to the      *)
(* first whose identifier is the target; for that entry, and only then, it  *)
(* has sent one allow request, with the entry's data-confid as cid and its  *)
(* data-key as ck.                                                          *)
C16_FirstMatchIsAllowed ==
    EndedOnEntries =>
        LET entries == conf.page[1].entries IN
        /\ Len(DetailRequests) >= 1
        /\ Len(DetailRequests) <= Len(entries)
        /\ \A i \in 1..Len(DetailRequests) :
              DetailRequests[i].url = CONF_URL \o <<"/details/", entries[i].id[2]>>
        /\ \A i \in 1..Len(conf.extracted) :
              conf.extracted[i] = conf.target =>
                  /\ i = Len(DetailRequests)
                  /\ Len(AllowRequests) = 1
                  /\ AllowRequests[1].params.cid = entries[i].data_confid
                  /\ AllowRequests[1].params.ck = entries[i].data_key
        /\ (\A i \in 1..Len(conf.extracted) : conf.extracted[i] # conf.target) =>
              AllowRequests = <<>>

(* C17: an executor that has ended on a page with entries, none of whose    *)
(* detail pages gave the target (and each of which parsed), has fetched the *)
(* detail page of every entry once, has sent no allow request and has       *)
(* failed with ConfirmationExpected.                                        *)
C17_NoMatchIsNotFound ==
    ( /\ EndedOnEntries
      /\ \A i \in 1..Len(conf.extracted) : conf.extracted[i] # conf.target
      /\ conf.error.kind \notin ParseErrors ) =>
        /\ Len(DetailRequests) = Len(conf.page[1].entries)
        /\ Len(conf.extracted) = Len(conf.page[1].entries)
        /\ AllowRequests = <<>>
        /\ conf.error.kind = "ConfirmationExpected"

C19_EmptyListIsNoError ==
    ( /\ conf.pc \in {"done", "failed"}
      /\ conf.page # Nothing
      /\ conf.page[1].empty
      /\ ~conf.page[1].rejected ) =>
        /\ conf.pc = "done"
        /\ conf.error.kind = None

(* C20: once a confirmations page with the incorrect-codes message has      *)
(* arrived, the executor has failed with InvalidCredentials 'Invalid Steam  *)
(* Guard file'; it has parsed no entry and has sent no detail request and   *)
(* no allow request.                                                        *)
C20_RejectedKeyRaises ==
    (conf.page # Nothing /\ conf.page[1].rejected) =>
        /\ conf.pc = "failed"
        /\ conf.error = Raise("InvalidCredentials", "Invalid Steam Guard file")
        /\ conf.confirmations = <<>>
        /\ DetailRequests = <<>>
        /\ AllowRequests = <<>>

C20_Witness ==
    /\ conf.page # Nothing
    /\ conf.page[1].rejected
    /\ conf.page[1].entries # <<>>
    /\ conf.error.kind = "InvalidCredentials"

-----------------------------------------------------------------------------
(* Vocabulary of the error kinds *)

\* the login call of coroutine c was attempted and rejected: its last answer
\* asked for a captcha or refused the credentials
LoginRejected(c) ==
    /\ calls[c].pc = "failed"
    /\ calls[c].login_response # Nothing
    /\ \/ calls[c].login_response[1].captcha_needed /\ Len(calls[c].seen) = 1
       \/ calls[c].login_response[1].success = "false"

\* the operation was called before a login and sent nothing
NotLoggedIn ==
    /\ op.pc = "failed"
    /\ op.requests = <<>>
    /\ IF op.name \in MarketOperations THEN ~market.was_login_executed ELSE ~was_login_executed

\* the confirmations page rejected the guard's signing key
GuardKeyRejected == conf.pc = "failed" /\ conf.page # Nothing /\ conf.page[1].rejected

\* every listed confirmation was inspected and none is about the target
NoneMatches ==
    /\ conf.pc = "failed"
    /\ conf.confirmations # <<>>
    /\ Len(conf.extracted) = Len(conf.confirmations)
    /\ \A i \in 1..Len(conf.extracted) : conf.extracted[i] \notin {conf.target, Absent}

\* the Web API rejected the API key
ApiKeyRejected == op.pc = "failed" /\ op.page # Nothing /\ op.page[1].invalid_api_key

\* the error kinds the caller holds in this state, by what went wrong
ErrorKinds ==
    << IF NotLoggedIn THEN {op.error.kind} ELSE {},
       { calls[c].error.kind : c \in { d \in Calls : LoginRejected(d) } },
       IF GuardKeyRejected THEN {conf.error.kind} ELSE {},
       IF NoneMatches THEN {conf.error.kind} ELSE {},
       IF ApiKeyRejected THEN {op.error.kind} ELSE {} >>

(* C21: the error kinds of 'not logged in yet', of a rejected login, of a   *)
(* guard signing key rejected by the confirmations page, of 'no listed      *)
(* confirmation matches' and of a rejected API key are pairwise different:  *)
(* no kind is raised for two of them.                                       *)
C21_ErrorKindsDistinguishable ==
    \A i, j \in 1..Len(ErrorKinds) : i # j => ErrorKinds[i] \cap ErrorKinds[j] = {}

-----------------------------------------------------------------------------
\* in this step the executor sends the allow request
SendsAllow ==
    /\ Len(conf'.requests) = Len(conf.requests) + 1
    /\ conf'.requests[Len(conf'.requests)].url = CONF_URL \o <<"/ajaxop">>

(* C22: the allow request is sent in the step in which the last details     *)
(* page arrives and gives the target; its t is the time of that step and    *)
(* its k the confirmation key generated for the tag 'allow' at that time,   *)
(* and its k is the k of no request sent before it.                         *)
C22_Step ==
    SendsAllow =>
        LET allow == conf'.requests[Len(conf'.requests)]
        IN  /\ conf.pc = "details"
            /\ Len(conf'.extracted) = Len(conf.extracted) + 1
            /\ conf'.extracted[Len(conf'.extracted)] = conf.target
            /\ allow.awaited
            /\ allow.params.t = conf'.time
            /\ allow.params.k =
                   generate_confirmation_key(conf._identity_secret, <<"allow">>, conf'.time)
            /\ \A i \in 1..Len(conf.requests) : conf.requests[i].params.k # allow.params.k
C22_AllowSignatureIsFresh == [][C22_Step]_vars

C22_Witness ==
    /\ conf.pc = "done"
    /\ Len(DetailRequests) = 2
    /\ Len(AllowRequests) = 1
    /\ AllowRequests[1].params.t > DetailRequests[2].params.t

\* the tag a confirmation request owes to its URL
TagOf(url) ==
    IF url = CONF_URL \o <<"/conf">> THEN <<"conf">>
    ELSE IF url = CONF_URL \o <<"/ajaxop">> THEN <<"allow">>
    ELSE <<"details", url[5]>>

Unparsed == \E i \in 1..Len(conf.extracted) : conf.extracted[i] = Absent

(* C24: once a details page that does not parse has arrived, the call has   *)
(* failed with the error of the parse; that page is the last one fetched,   *)
(* one details request was sent per details page received, none after it,   *)
(* and no allow request was sent.  A call whose confirmations page has      *)
(* arrived and which has ended in an error has sent the list request only.  *)
C24_ParseErrorEndsTheCall ==
    /\ Unparsed =>
          /\ conf.pc = "failed"
          /\ conf.error.kind \in ParseErrors
          /\ conf.extracted[Len(conf.extracted)] = Absent
          /\ \A i \in 1..(Len(conf.extracted) - 1) : conf.extracted[i] # Absent
          /\ Len(DetailRequests) = Len(conf.extracted)
          /\ AllowRequests = <<>>
    /\ (conf.page # Nothing /\ conf.pc = "failed") =>
          /\ conf.error.kind # None
          /\ Len(conf.requests) = 1
          /\ conf.requests[1].url = CONF_URL \o <<"/conf">>

C24_Witness ==
    /\ Unparsed
    /\ Len(conf.extracted) = 2
    /\ Len(conf.confirmations) = 3
    /\ conf.pc = "failed"

-----------------------------------------------------------------------------
(* C25: while a login call is in flight on the client, suspended at a       *)
(* network call, no other login call takes a step: none starts, sends a     *)
(* request, receives a response or updates the client or the cookie jar.    *)
C25_Step ==
    \A c \in Calls : \A d \in Calls \ {c} :
        ~Ended(calls[c].pc) => calls'[d] = calls[d]
C25_OneLoginInFlight == [][C25_Step]_vars

-----------------------------------------------------------------------------
\* the secret a one-time code or a confirmation key was generated from
SecretOf(generated) == generated[2]

(* C26: the twofactorcode of every credential submission is empty or the    *)
(* one-time code of the shared secret of the guard the login was called     *)
(* with, and the login executor holds no identity secret; the executor of   *)
(* a confirmation the client starts holds the identity secret of the        *)
(* client's guard, and the k of every confirmation request that carries one *)
(* is the key of the executor's identity secret, of no shared secret.       *)
C26_SecretsNeverCrossed ==
    /\ \A c \in Calls :
          /\ calls[c].pc # "idle" => calls[c].executor.shared_secret = steam_guard.shared_secret
          /\ calls[c].executor.shared_secret \notin IdentitySecrets
          /\ \A i \in 1..Len(calls[c].submissions) :
                LET code == calls[c].submissions[i].twofactorcode IN
                code # EmptyString =>
                    /\ code = generate_one_time_code(steam_guard.shared_secret)
                    /\ SecretOf(code) \notin IdentitySecrets
    /\ op.confirming # None => conf._identity_secret = steam_guard.identity_secret
    /\ \A i \in 1..Len(conf.requests) :
          LET r == conf.requests[i] IN
          r.awaited =>
              /\ r.params.k =
                     generate_confirmation_key(conf._identity_secret, r.params.tag, r.params.t)
              /\ SecretOf(r.params.k) \in IdentitySecrets

C26_Witness ==
    /\ steam_guard.shared_secret = "shared1"
    /\ steam_guard.identity_secret = "identity2"
    /\ calls["first"].pc = "done"
    /\ Len(calls["first"].submissions) = 2
    /\ op.name = "accept_trade_offer"
    /\ conf._identity_secret = "identity2"
    /\ Len(AllowRequests) = 1

-----------------------------------------------------------------------------
(* C27: a login call never makes more than two credential submissions, and  *)
(* a login call in flight ends, by returning or by raising, whatever the    *)
(* provider answers, a two-factor request to every submission included.     *)
C27_LoginTerminates ==
    /\ [](\A c \in Calls : Len(calls[c].submissions) <= 2)
    /\ \A c \in Calls : (~Ended(calls[c].pc)) ~> Ended(calls[c].pc)

C27_Witness ==
    \E c \in Calls :
        /\ Ended(calls[c].pc)
        /\ Len(calls[c].submissions) = 2
        /\ Len(calls[c].seen) = 2
        /\ calls[c].seen[1].requires_twofactor
        /\ calls[c].seen[2].requires_twofactor

-----------------------------------------------------------------------------
(* C28: a credential submission is made in the step in which the key fetch  *)
(* of its own _send_login_request is answered, the n-th fetch for the n-th  *)
(* submission; it carries the password encrypted with the key of one        *)
(* complete key response and that response's timestamp as rsatimestamp, and *)
(* the first submission of a login call carries '' as twofactorcode.        *)
C28_Step ==
    \A c \in Calls :
        Len(calls'[c].submissions) = Len(calls[c].submissions) + 1 =>
            LET n == Len(calls'[c].submissions)
                data == calls'[c].submissions[n]
            IN  /\ calls[c].pc = "getrsakey"
                /\ Len(calls[c].rsa_requests) = n
                /\ calls'[c].rsa_requests = calls[c].rsa_requests
                /\ \E k \in RsaKeyResponses :
                      /\ ~RaisesKeyError(k)
                      /\ data.password.key = k.publickey_mod
                      /\ data.password.plaintext = calls[c].executor.password
                      /\ data.rsatimestamp = k.timestamp
                /\ n = 1 => data.twofactorcode = EmptyString
C28_EachSubmissionHasItsKey == [][C28_Step]_vars

C28_Witness ==
    \E c \in Calls :
        /\ Len(calls[c].submissions) = 2
        /\ calls[c].submissions[1].password.key = "key1"
        /\ calls[c].submissions[1].rsatimestamp = "ts1"
        /\ calls[c].submissions[1].twofactorcode = EmptyString
        /\ calls[c].submissions[2].password.key = "key2"
        /\ calls[c].submissions[2].rsatimestamp = "ts2"
        /\ calls[c].submissions[2].twofactorcode # EmptyString

(* C29: when a login call has ended, by returning or by raising, no task it *)
(* made is left scheduled or waiting for the answer to a key request, and   *)
(* none has raised an error that nobody awaits.                             *)
C29_NoTaskOutlivesLogin ==
    \A c \in Calls :
        Ended(calls[c].pc) => tasks[c].state \notin {"scheduled", "waiting", "raised"}

-----------------------------------------------------------------------------
\* the accept POSTs among the requests of the operation
AcceptPosts ==
    SelectSeq(op.requests, LAMBDA r : r.method = "POST" /\ Len(r.url) = 5 /\ r.url[5] = "/accept")

(* C30: a call of accept_trade_offer whose trade offer was fetched in a     *)
(* state other than Active has failed with ApiException after its one       *)
(* request; one whose offer page showed the new-device hold has failed with *)
(* SevenDaysHoldException after its two GETs; neither has sent the accept   *)
(* POST or a confirmation request, and an accept POST is sent only for an   *)
(* offer fetched as Active whose page shows no hold.                        *)
C30_AcceptGuards ==
    (op.name = "accept_trade_offer" /\ op.page # Nothing) =>
        LET read == op.page[1]
            fetched == ~read.invalid_api_key /\ read.json
        IN  /\ (fetched /\ read.trade_offer_state # "Active") =>
                  /\ op.pc = "failed"
                  /\ op.error.kind = "ApiException"
                  /\ Len(op.requests) = 1
                  /\ AcceptPosts = <<>>
                  /\ conf.requests = <<>>
            /\ read.new_device =>
                  /\ op.pc = "failed"
                  /\ op.error.kind = "SevenDaysHoldException"
                  /\ Len(op.requests) = 2
                  /\ AcceptPosts = <<>>
                  /\ conf.requests = <<>>
            /\ AcceptPosts # <<>> =>
                  /\ fetched
                  /\ read.trade_offer_state = "Active"
                  /\ ~read.new_device

C30_Witness ==
    /\ op.name = "accept_trade_offer"
    /\ op.pc = "failed"
    /\ op.error.kind = "SevenDaysHoldException"
    /\ Len(op.requests) = 2
    /\ op.page # Nothing
    /\ op.page[1].new_device

-----------------------------------------------------------------------------
(* C32 *)

\* the step ends a login call of SteamClient.login without an exception
LoginSucceeds == \E c \in Calls : calls[c].pc # "done" /\ calls'[c].pc = "done"

(* C32: while was_login_executed is true, username and steam_guard are      *)
(* those of a login that succeeded: a step that leaves the flag true        *)
(* changes them only by ending a login call with success.                   *)
C32_Step ==
    (was_login_executed /\ was_login_executed'
        /\ <<username', steam_guard'>> # <<username, steam_guard>>)
    => LoginSucceeds
C32_IdentityOfASucceededLogin == [][C32_Step]_vars

-----------------------------------------------------------------------------
(* C33 *)

\* the sessionid cookie the jar holds for a host: the cookie of that domain
\* or, without one, the shared cookie of the empty domain; None without both
SessionidScopedTo(jar, host) ==
    IF HasCookie(jar, host) THEN CookieValue(jar, host)
    ELSE IF HasCookie(jar, SharedDomain) THEN CookieValue(jar, SharedDomain)
    ELSE None

\* the requests of the method of SteamClient in flight that carry a
\* sessionid parameter
CarriesSessionid ==
    { i \in 1..Len(op.requests) :
        /\ ~Ended(op.pc)
        /\ op.name \in ClientOperations
        /\ op.requests[i].sessionid # Absent }

(* C33: after a successful login, the sessionid _get_session_id hands to a  *)
(* request is the sessionid cookie scoped to the host the request is sent   *)
(* to, whatever cookies other domains of the jar hold, and it is None       *)
(* exactly when no domain of the jar holds a sessionid cookie.              *)
C33_SessionidOfTheOrigin ==
    was_login_executed =>
        /\ \A i \in CarriesSessionid :
              op.requests[i].sessionid
                  = SessionidScopedTo(cookie_jar, raw_host(op.requests[i].url))
        /\ (_get_session_id(cookie_jar) = None) <=> (Domains(cookie_jar) = {})

-----------------------------------------------------------------------------
(* C34 *)

\* the step takes get_my_market_listings on from the answer of the render URL
RenderAnswered ==
    /\ op.name = "get_my_market_listings"
    /\ op.pc = "render"
    /\ op'.pc # "render"

\* json.loads takes the text of the market page, the first response
FirstBodyParses == op.page[1].json /\ ~op.page[1].end_marker

(* C34: when the market page reports more listings than it shows, the       *)
(* remaining listings are parsed from the body of the first response, the   *)
(* market page, not from the body of the render response: the call returns  *)
(* only if the market page parses as a JSON document and ends with          *)
(* JSONDecodeError only if it does not, whatever the render response holds. *)
C34_Step ==
    RenderAnswered =>
        /\ op.page # Nothing
        /\ op.page[1].more
        /\ op'.pc \in {"done", "failed"}
        /\ op'.pc = "done" => FirstBodyParses
        /\ op'.pc = "failed" =>
              /\ op'.error.kind \in {"AttributeError", "ApiException", "JSONDecodeError"}
              /\ op'.error.kind = "JSONDecodeError" => ~FirstBodyParses
C34_RemainingListingsFromFirstBody == [][C34_Step]_vars

\* the render URL was answered and the parse of the market page ended the call
C34_Witness ==
    /\ op.name = "get_my_market_listings"
    /\ Len(op.requests) = 2
    /\ op.requests[2].url = COMMUNITY_URL \o <<"/market/mylistings/render/">>
    /\ op.page # Nothing
    /\ op.page[1].more
    /\ op.pc = "failed"
    /\ op.error.kind = "JSONDecodeError"

-----------------------------------------------------------------------------
(* C35 *)

(* C35: a call of get_my_market_listings whose market page was answered     *)
(* with HTTP 200 returns the listings structure and never returns nothing,  *)
(* with or without the end marker of the active listings in the page: a     *)
(* call that has returned (which it does only past the test of the status)  *)
(* has returned the listings.                                               *)
C35_ListingsReturned ==
    (op.name = "get_my_market_listings" /\ op.pc = "done") => op.result = "listings"

-----------------------------------------------------------------------------
(* C31 *)

\* the methods that may ask for a mobile confirmation, and where each awaits
\* the answer to its POST
ConfirmedActions ==
    {"accept_trade_offer", "make_offer", "make_offer_with_url", "create_sell_order"}
PostAwaited == op.name \in ConfirmedActions /\ op.pc \in {"accept", "send", "sellitem"}

\* the step takes the method on from the answer to its POST
PostAnswered ==
    /\ PostAwaited
    /\ op.requests[Len(op.requests)].method = "POST"
    /\ op'.pc # op.pc

\* the step makes a ConfirmationExecutor and runs it
ConfirmationStarts == conf.method = None /\ conf'.method # None

\* the answer to the POST, as the method read it, asks for a confirmation
Asked(o) == o.page # Nothing /\ o.page[1].needs_mobile_confirmation

\* the id of the action: the trade offer accepted, the asset sold, the
\* trade offer the answer of make_offer names
ActionId(o) ==
    IF o.name \in {"make_offer", "make_offer_with_url"} THEN o.page[1].tradeofferid ELSE o.target

(* C31: for accept_trade_offer, make_offer, make_offer_with_url and         *)
(* create_sell_order the confirmation starts only in the step that takes    *)
(* the method on from the answer to its POST, and only if that answer has   *)
(* needs_mobile_confirmation set; it then goes to the id of the action; an  *)
(* answer without the flag sends no confirmation request.                   *)
C31_Step ==
    /\ ConfirmationStarts =>
          /\ PostAnswered
          /\ Asked(op')
          /\ conf'.target = ActionId(op')
          /\ conf'.method = IF op.name = "create_sell_order" THEN "confirm_sell_listing"
                            ELSE "send_trade_allow_request"
    /\ (PostAnswered /\ ~Asked(op')) => (conf' = NoConfirmation /\ op'.pc \in {"done", "failed"})
    /\ conf'.requests # <<>> => Asked(op')
C31_ConfirmationFollowsThePost == [][C31_Step]_vars

\* a sell order whose answer asked for the confirmation of its asset
C31_Witness ==
    /\ op.name = "create_sell_order"
    /\ Asked(op)
    /\ conf.method = "confirm_sell_listing"
    /\ conf.target = op.target
    /\ conf.requests # <<>>

====
